---- MODULE Spec2Model ----
(***************************************************************************)
(* The live-conversation session of components/LivePage.tsx as a state     *)
(* machine: the React state of the component, its refs, the resources one  *)
(* startSession call acquires (microphone stream, audio contexts, live     *)
(* connection, capture nodes), and the callbacks the connection, the       *)
(* capture node and the output clock drive.                                *)
(*                                                                         *)
(* Every startSession call that passes the key check is numbered           *)
(* 1, 2, ...; that number names the stream, the pair of audio contexts,    *)
(* the connection (socket and connect promise) and the capture nodes the   *)
(* call creates.  A ref holds such a number, or 0 for null.                *)
(***************************************************************************)
EXTENDS Integers, Sequences, FiniteSets, TLC

\* ---- bounds of the model ----
\* startSession calls that pass the key check
MaxStarts == 2
\* inputs of a run: starts, key changes, inbound messages, captured frames
MaxWork == 4
\* ticks of an output clock
MaxClock == 1
\* a captured sample is a multiple of 1 / (Scale * Frac)
Frac == 4
\* how far from -1, 0 and 1 the samples that are encoded lie, in those units
EdgeWidth == 24
\* voice profiles created, and audio samples selected for one
MaxCreates == 2
MaxFiles == 2
\* recorders made by TranscribePage, and calls of processRecording
MaxRecordings == 2
MaxProcessed == 3
\* characters typed into the key modal
MaxKeyLen == 3

\* the factor of the frame encoder
Scale == 32768

Sessions == 1..MaxStarts

\* ---- the status strings of LivePage ----
StatusIdle == "Idle"
StatusNoKey == "Gemini API Key is not configured. Please set it using the button in the sidebar."
StatusPleaseSetKey == "Please set your Gemini API Key first."
StatusInitializing == "Initializing..."
StatusConnected == "Connected. Speak now."
StatusStopping == "Stopping..."
StatusFailedToStart == "Failed to start. Check mic permissions."
StatusSessionClosed == "Session closed."
StatusError == "Error: message"

\* ---- inbound messages (LiveServerMessage.serverContent) ----
\* inputTranscription / outputTranscription text ("" when the field is
\* absent), turnComplete, and modelTurn audio given by its decoded duration
\* (0 when the message carries no audio).
Msg(i, o, t, a) == [inT |-> i, outT |-> o, tc |-> t, audio |-> a]

Messages ==
    { Msg("a", "", FALSE, 0), Msg("", "", TRUE, 0), Msg("b", "", TRUE, 0),
      Msg("", "c", FALSE, 1), Msg("", "", FALSE, 2) }

\* decodeAudioData of lib/audioUtils is asynchronous: the promise it returns
\* settles later, with the decoded buffer or with a decode error.
decodeAudioData(c) == {"buffer", "DecodeError"}

Max(a, b) == IF a >= b THEN a ELSE b

VARIABLES
    \* React state of LivePage and of ApiKeyProvider
    mounted, apiKey, status, isSessionActive,
    transcriptionHistory, currentInput, currentOutput,
    \* refs of LivePage
    sessionPromiseRef, inputAudioContextRef, outputAudioContextRef,
    scriptProcessorRef, mediaStreamSourceRef, nextStartTimeRef, audioSourcesRef,
    \* what each startSession call created
    stream, inputCtx, outputCtx, socket, promise, node, nodeCtx, closure,
    \* continuations and work in flight
    waiters, decoding, clock, sent,
    \* history of the run
    startCount, keyChanges, arrived, framesCaptured, scheduled, failedChunks,
    errored, lostFrames, since, expectedHistory, stopDone,
    \* one sample of a captured frame and the Int16Array element made of it
    inputData, pcmData, encoded,
    \* VoicesPage: its React state, the position of handleCreateVoice and of
    \* fetchVoices, and the remote 'voices' table and 'voice-samples' bucket
    session, voices, loading, showCreateForm, newVoiceName, files, uploading,
    voicesError, createPc, voiceData, fileIndex, fetching, voicesTable,
    voiceSamples, created,
    \* TranscribePage: its React state and refs, the recorders it made, and
    \* the reads and requests in flight
    isRecording, transcribing, transcription, transcribeError,
    mediaRecorderRef, audioChunksRef, recorderState, trackState, stopTask,
    micRequests, recordings, reads, requests, requestsSent, processed,
    \* ApiKeyProvider and ApiKeyModal: the provider's key, the
    \* 'gemini_api_key' entry of localStorage, the modal and its input
    providerKey, localStorageKey, isApiKeyModalOpen, localKey

vars == << mounted, apiKey, status, isSessionActive,
           transcriptionHistory, currentInput, currentOutput,
           sessionPromiseRef, inputAudioContextRef, outputAudioContextRef,
           scriptProcessorRef, mediaStreamSourceRef, nextStartTimeRef, audioSourcesRef,
           stream, inputCtx, outputCtx, socket, promise, node, nodeCtx, closure,
           waiters, decoding, clock, sent,
           startCount, keyChanges, arrived, framesCaptured, scheduled, failedChunks,
           errored, lostFrames, since, expectedHistory, stopDone,
           inputData, pcmData, encoded,
           session, voices, loading, showCreateForm, newVoiceName, files, uploading,
           voicesError, createPc, voiceData, fileIndex, fetching, voicesTable,
           voiceSamples, created,
           isRecording, transcribing, transcription, transcribeError,
           mediaRecorderRef, audioChunksRef, recorderState, trackState, stopTask,
           micRequests, recordings, reads, requests, requestsSent, processed,
           providerKey, localStorageKey, isApiKeyModalOpen, localKey >>

pageVars ==
    << mounted, apiKey, status, isSessionActive,
       transcriptionHistory, currentInput, currentOutput,
       sessionPromiseRef, inputAudioContextRef, outputAudioContextRef,
       scriptProcessorRef, mediaStreamSourceRef, nextStartTimeRef, audioSourcesRef,
       stream, inputCtx, outputCtx, socket, promise, node, nodeCtx, closure,
       waiters, decoding, clock, sent,
       startCount, keyChanges, arrived, framesCaptured, scheduled, failedChunks,
       errored, lostFrames, since, expectedHistory, stopDone >>

encodeVars == << inputData, pcmData, encoded >>

voicesVars ==
    << session, voices, loading, showCreateForm, newVoiceName, files, uploading,
       voicesError, createPc, voiceData, fileIndex, fetching, voicesTable,
       voiceSamples, created >>

transcribeVars ==
    << isRecording, transcribing, transcription, transcribeError,
       mediaRecorderRef, audioChunksRef, recorderState, trackState, stopTask,
       micRequests, recordings, reads, requests, requestsSent, processed >>

keyVars == << providerKey, localStorageKey, isApiKeyModalOpen, localKey >>

\* what the handlers of LivePage, of the frame encoder, of VoicesPage, of
\* TranscribePage and of the key provider leave alone
notPageVars == << encodeVars, voicesVars, transcribeVars, keyVars >>
notEncodeVars == << pageVars, voicesVars, transcribeVars, keyVars >>
notVoicesVars == << pageVars, encodeVars, transcribeVars, keyVars >>
notTranscribeVars == << pageVars, encodeVars, voicesVars, keyVars >>
notKeyVars == << pageVars, encodeVars, voicesVars, transcribeVars >>

\* The whole state as one record, so that a handler is a function from the
\* state before it to the state after it and handlers compose as calls.
Cur ==
    [ mounted |-> mounted, apiKey |-> apiKey, status |-> status,
      isSessionActive |-> isSessionActive,
      transcriptionHistory |-> transcriptionHistory,
      currentInput |-> currentInput, currentOutput |-> currentOutput,
      sessionPromiseRef |-> sessionPromiseRef,
      inputAudioContextRef |-> inputAudioContextRef,
      outputAudioContextRef |-> outputAudioContextRef,
      scriptProcessorRef |-> scriptProcessorRef,
      mediaStreamSourceRef |-> mediaStreamSourceRef,
      nextStartTimeRef |-> nextStartTimeRef, audioSourcesRef |-> audioSourcesRef,
      stream |-> stream, inputCtx |-> inputCtx, outputCtx |-> outputCtx,
      socket |-> socket, promise |-> promise, node |-> node, nodeCtx |-> nodeCtx,
      closure |-> closure, waiters |-> waiters, decoding |-> decoding,
      clock |-> clock, sent |-> sent,
      startCount |-> startCount, keyChanges |-> keyChanges, arrived |-> arrived,
      framesCaptured |-> framesCaptured, scheduled |-> scheduled,
      failedChunks |-> failedChunks, errored |-> errored,
      lostFrames |-> lostFrames, since |-> since,
      expectedHistory |-> expectedHistory, stopDone |-> stopDone ]

\* Unmounting discards the useState values of LivePage (they are shown here
\* as their initial values), and a state setter called afterwards does nothing.
Commit(r) ==
    /\ mounted' = r.mounted
    /\ apiKey' = r.apiKey
    /\ status' = IF r.mounted THEN r.status ELSE StatusIdle
    /\ isSessionActive' = IF r.mounted THEN r.isSessionActive ELSE FALSE
    /\ transcriptionHistory' = IF r.mounted THEN r.transcriptionHistory ELSE << >>
    /\ currentInput' = IF r.mounted THEN r.currentInput ELSE ""
    /\ currentOutput' = IF r.mounted THEN r.currentOutput ELSE ""
    /\ sessionPromiseRef' = r.sessionPromiseRef
    /\ inputAudioContextRef' = r.inputAudioContextRef
    /\ outputAudioContextRef' = r.outputAudioContextRef
    /\ scriptProcessorRef' = r.scriptProcessorRef
    /\ mediaStreamSourceRef' = r.mediaStreamSourceRef
    /\ nextStartTimeRef' = r.nextStartTimeRef
    /\ audioSourcesRef' = r.audioSourcesRef
    /\ stream' = r.stream
    /\ inputCtx' = r.inputCtx
    /\ outputCtx' = r.outputCtx
    /\ socket' = r.socket
    /\ promise' = r.promise
    /\ node' = r.node
    /\ nodeCtx' = r.nodeCtx
    /\ closure' = r.closure
    /\ waiters' = r.waiters
    /\ decoding' = r.decoding
    /\ clock' = r.clock
    /\ sent' = r.sent
    /\ startCount' = r.startCount
    /\ keyChanges' = r.keyChanges
    /\ arrived' = r.arrived
    /\ framesCaptured' = r.framesCaptured
    /\ scheduled' = r.scheduled
    /\ failedChunks' = r.failedChunks
    /\ errored' = r.errored
    /\ lostFrames' = r.lostFrames
    /\ since' = r.since
    /\ expectedHistory' = IF r.mounted THEN r.expectedHistory ELSE << >>
    /\ stopDone' = r.stopDone
    /\ UNCHANGED notPageVars

isApiKeySet(r) == r.apiKey # ""

InitPage ==
    /\ mounted = TRUE
    /\ apiKey \in {"", "k"}
    /\ status = IF apiKey # "" THEN StatusIdle ELSE StatusNoKey
    /\ isSessionActive = FALSE
    /\ transcriptionHistory = << >>
    /\ currentInput = ""
    /\ currentOutput = ""
    /\ sessionPromiseRef = 0
    /\ inputAudioContextRef = 0
    /\ outputAudioContextRef = 0
    /\ scriptProcessorRef = 0
    /\ mediaStreamSourceRef = 0
    /\ nextStartTimeRef = 0
    /\ audioSourcesRef = {}
    /\ stream = [s \in Sessions |-> "none"]
    /\ inputCtx = [s \in Sessions |-> "none"]
    /\ outputCtx = [s \in Sessions |-> "none"]
    /\ socket = [s \in Sessions |-> "none"]
    /\ promise = [s \in Sessions |-> "none"]
    /\ node = [s \in Sessions |-> "none"]
    /\ nodeCtx = [s \in Sessions |-> 0]
    /\ closure = [s \in Sessions |-> [input |-> "", output |-> ""]]
    /\ waiters = [s \in Sessions |-> << >>]
    /\ decoding = {}
    /\ clock = [s \in Sessions |-> 0]
    /\ sent = [s \in Sessions |-> << >>]
    /\ startCount = 0
    /\ keyChanges = 0
    /\ arrived = 0
    /\ framesCaptured = 0
    /\ scheduled = << >>
    /\ failedChunks = {}
    /\ errored = [s \in Sessions |-> FALSE]
    /\ lostFrames = {}
    /\ since = [s \in Sessions |-> [user |-> "", model |-> ""]]
    /\ expectedHistory = << >>
    /\ stopDone = FALSE

\* the encoder has nothing to encode
InitNoSample ==
    /\ inputData = 0
    /\ pcmData = 0
    /\ encoded = FALSE

\* VoicesPage as it is before it is shown: nobody signed in, nothing stored
InitNoVoices ==
    /\ session = FALSE
    /\ voices = {}
    /\ loading = FALSE
    /\ showCreateForm = FALSE
    /\ newVoiceName = ""
    /\ files = 0
    /\ uploading = FALSE
    /\ voicesError = "null"
    /\ createPc = "idle"
    /\ voiceData = 0
    /\ fileIndex = 0
    /\ fetching = FALSE
    /\ voicesTable = {}
    /\ voiceSamples = {}
    /\ created = 0

\* TranscribePage is not shown: nothing recorded, read or requested
InitNoTranscribe ==
    /\ isRecording = FALSE
    /\ transcribing = FALSE
    /\ transcription = << >>
    /\ transcribeError = "null"
    /\ mediaRecorderRef = 0
    /\ audioChunksRef = {}
    /\ recorderState = [r \in 1..MaxRecordings |-> "none"]
    /\ trackState = [r \in 1..MaxRecordings |-> "none"]
    /\ stopTask = {}
    /\ micRequests = 0
    /\ recordings = 0
    /\ reads = {}
    /\ requests = {}
    /\ requestsSent = [r \in 1..MaxRecordings |-> 0]
    /\ processed = 0

\* the key modal is not used: closed, nothing typed, nothing persisted
InitNoKey ==
    /\ providerKey = {}
    /\ localStorageKey = {}
    /\ isApiKeyModalOpen = FALSE
    /\ localKey = ""

Init ==
    /\ InitPage
    /\ InitNoSample
    /\ InitNoVoices
    /\ InitNoTranscribe
    /\ InitNoKey

\* ---------------------------------------------------------------------
\* stopSession
\* ---------------------------------------------------------------------

\* session.close(): closes the socket if it is open; the close event
\* (onclose) is delivered later.
sessionClose(r, p) ==
    IF r.socket[p] = "open" THEN [r EXCEPT !.socket[p] = "closing"] ELSE r

\* the part of stopSession after the await: both contexts closed unless
\* already closed, the capture nodes the refs hold disconnected, every
\* source in audioSourcesRef stopped and the set cleared, the refs and the
\* flags reset.
stopSessionTail(r) ==
    LET i == r.inputAudioContextRef
        o == r.outputAudioContextRef
        n == r.scriptProcessorRef
        r1 == IF i # 0 /\ r.inputCtx[i] # "closed"
              THEN [r EXCEPT !.inputCtx[i] = "closed"] ELSE r
        r2 == IF o # 0 /\ r1.outputCtx[o] # "closed"
              THEN [r1 EXCEPT !.outputCtx[o] = "closed"] ELSE r1
        r3 == IF n # 0 THEN [r2 EXCEPT !.node[n] = "disconnected"] ELSE r2
    IN  [r3 EXCEPT !.audioSourcesRef = {},
                   !.sessionPromiseRef = 0,
                   !.isSessionActive = FALSE,
                   !.status = StatusIdle,
                   !.stopDone = TRUE]

\* stopSession resumed when the promise it awaits has settled: close the
\* session it resolved to, or swallow the rejection, then the tail.
stopSessionResume(r, p) ==
    stopSessionTail(IF r.promise[p] = "fulfilled" THEN sessionClose(r, p) ELSE r)

\* a stopSession call suspended on promise p; two suspended calls in a row
\* resume back to back and the second repeats the first, so one is kept.
AwaitStop(w) ==
    IF Len(w) > 0 /\ w[Len(w)].k = "stop" THEN w
    ELSE Append(w, [k |-> "stop", f |-> 0])

stopSession(r) ==
    LET r1 == [r EXCEPT !.status = StatusStopping]
        p == r.sessionPromiseRef
    IN  IF p # 0
        THEN IF r.promise[p] = "pending"
             THEN [r1 EXCEPT !.waiters[p] = AwaitStop(@)]
             ELSE stopSessionResume(r1, p)
        ELSE stopSessionTail(r1)

\* The effect of lines 169-175: when a handler changed isSessionActive, the
\* cleanup of the previous render runs, and that render saw the old value.
Render(old, new) ==
    IF new.mounted /\ old.isSessionActive /\ ~new.isSessionActive
    THEN stopSession(new)
    ELSE new

\* ---------------------------------------------------------------------
\* capture and send
\* ---------------------------------------------------------------------

\* a transport that would take a frame whatever its state
sendRealtimeInput_AfterClose(r, p, f) ==
    [r EXCEPT !.sent[p] = Append(@, f)]

\* session.sendRealtimeInput on the session promise p resolved to: the frame
\* goes out if the socket is open and is lost otherwise.
sendRealtimeInput(r, p, f) ==
    IF r.socket[p] = "open"
    THEN [r EXCEPT !.sent[p] = Append(@, f)]
    ELSE [r EXCEPT !.lostFrames = @ \cup {f}]

\* onaudioprocess of the capture node of start n: one frame, handed to
\* whatever sessionPromiseRef holds now.
onaudioprocess(r, n) ==
    LET f == r.framesCaptured + 1
        p == r.sessionPromiseRef
        r1 == [r EXCEPT !.framesCaptured = f]
    IN  IF p = 0 THEN [r1 EXCEPT !.lostFrames = @ \cup {f}]
        ELSE IF r.promise[p] = "pending"
             THEN [r1 EXCEPT !.waiters[p] = Append(@, [k |-> "send", f |-> f])]
        ELSE IF r.promise[p] = "fulfilled" THEN sendRealtimeInput(r1, p, f)
        ELSE [r1 EXCEPT !.lostFrames = @ \cup {f}]

\* The connect promise of start s settles: the continuations waiting on it
\* run in the order they were registered.
RECURSIVE runWaiters(_, _, _)
runWaiters(r, s, w) ==
    IF w = << >> THEN r
    ELSE LET h == Head(w)
             r1 == IF h.k = "stop" THEN stopSessionResume(r, s)
                   ELSE IF r.promise[s] = "fulfilled" THEN sendRealtimeInput(r, s, h.f)
                   ELSE [r EXCEPT !.lostFrames = @ \cup {h.f}]
         IN  runWaiters(r1, s, Tail(w))

settle(r, s, outcome) ==
    runWaiters([r EXCEPT !.promise[s] = outcome, !.waiters[s] = << >>], s, r.waiters[s])

\* ---------------------------------------------------------------------
\* startSession
\* ---------------------------------------------------------------------

\* startSession as it would be without the key check of lines 73-76
startSession_NoKeyCheck(r) ==
    LET s == r.startCount + 1
    IN  [r EXCEPT !.status = StatusInitializing,
                  !.transcriptionHistory = << >>,
                  !.currentInput = "",
                  !.currentOutput = "",
                  !.stream[s] = "requested",
                  !.closure[s] = [input |-> r.currentInput, output |-> r.currentOutput],
                  !.startCount = s,
                  !.expectedHistory = << >>,
                  !.stopDone = FALSE]

\* startSession up to the await of getUserMedia
startSession(r) ==
    IF ~isApiKeySet(r)
    THEN [r EXCEPT !.status = StatusPleaseSetKey]
    ELSE LET s == r.startCount + 1
         IN  [r EXCEPT !.status = StatusInitializing,
                       !.transcriptionHistory = << >>,
                       !.currentInput = "",
                       !.currentOutput = "",
                       !.stream[s] = "requested",
                       !.closure[s] = [input |-> r.currentInput, output |-> r.currentOutput],
                       !.startCount = s,
                       !.expectedHistory = << >>,
                       !.stopDone = FALSE]

\* a start that wires the capture chain and marks the session active as
\* soon as the microphone is there, before the transport has opened
getUserMediaResolved_WiresEarly(r, s) ==
    [r EXCEPT !.stream[s] = "live",
              !.inputCtx[s] = "running",
              !.outputCtx[s] = "running",
              !.inputAudioContextRef = s,
              !.outputAudioContextRef = s,
              !.nextStartTimeRef = 0,
              !.socket[s] = "connecting",
              !.promise[s] = "pending",
              !.sessionPromiseRef = s,
              !.isSessionActive = TRUE,
              !.node[s] = "connected",
              !.nodeCtx[s] = s,
              !.mediaStreamSourceRef = s,
              !.scriptProcessorRef = s]

\* getUserMedia resolved: the contexts are created, nextStartTimeRef reset,
\* and ai.live.connect is called; its promise is stored, not awaited.
getUserMediaResolved(r, s) ==
    [r EXCEPT !.stream[s] = "live",
              !.inputCtx[s] = "running",
              !.outputCtx[s] = "running",
              !.inputAudioContextRef = s,
              !.outputAudioContextRef = s,
              !.nextStartTimeRef = 0,
              !.socket[s] = "connecting",
              !.promise[s] = "pending",
              !.sessionPromiseRef = s]

\* a catch block that reports the failure and carries on to connect
getUserMediaRejected_Connects(r, s) ==
    [r EXCEPT !.stream[s] = "denied",
              !.status = StatusFailedToStart,
              !.socket[s] = "connecting",
              !.promise[s] = "pending",
              !.sessionPromiseRef = s]

\* getUserMedia rejected: the catch block
getUserMediaRejected(r, s) ==
    [r EXCEPT !.stream[s] = "denied",
              !.status = StatusFailedToStart]

\* ---------------------------------------------------------------------
\* callbacks of the connection
\* ---------------------------------------------------------------------

onopen(r, s) ==
    [r EXCEPT !.status = StatusConnected,
              !.isSessionActive = TRUE,
              !.node[s] = "connected",
              !.nodeCtx[s] = r.inputAudioContextRef,
              !.mediaStreamSourceRef = s,
              !.scriptProcessorRef = s]

\* onmessage as it would be if a TurnComplete left the partial buffers as
\* they are
onmessage_KeepsBuffers(r, s, m) ==
    LET id == r.arrived + 1
        turns == << [type |-> "user", text |-> r.closure[s].input \o m.inT],
                    [type |-> "model", text |-> r.closure[s].output \o m.outT] >>
        expected == << [type |-> "user", text |-> r.since[s].user \o m.inT],
                       [type |-> "model", text |-> r.since[s].model \o m.outT] >>
        r1 == [r EXCEPT
                 !.arrived = id,
                 !.currentInput = @ \o m.inT,
                 !.currentOutput = @ \o m.outT,
                 !.transcriptionHistory = IF m.tc THEN @ \o turns ELSE @,
                 !.since[s] = IF m.tc THEN [user |-> "", model |-> ""]
                              ELSE [user |-> @.user \o m.inT, model |-> @.model \o m.outT],
                 !.expectedHistory = IF m.tc THEN @ \o expected ELSE @]
    IN  IF m.audio > 0 /\ r.outputAudioContextRef # 0
        THEN [r1 EXCEPT !.decoding = @ \cup {[id |-> id, sess |-> s, dur |-> m.audio]}]
        ELSE r1

\* onmessage up to the await of decodeAudioData.  The turn is built from
\* currentInput / currentOutput as the render that created this startSession
\* closure saw them.
onmessage(r, s, m) ==
    LET id == r.arrived + 1
        turns == << [type |-> "user", text |-> r.closure[s].input \o m.inT],
                    [type |-> "model", text |-> r.closure[s].output \o m.outT] >>
        expected == << [type |-> "user", text |-> r.since[s].user \o m.inT],
                       [type |-> "model", text |-> r.since[s].model \o m.outT] >>
        r1 == [r EXCEPT
                 !.arrived = id,
                 !.currentInput = IF m.tc THEN "" ELSE @ \o m.inT,
                 !.currentOutput = IF m.tc THEN "" ELSE @ \o m.outT,
                 !.transcriptionHistory = IF m.tc THEN @ \o turns ELSE @,
                 !.since[s] = IF m.tc THEN [user |-> "", model |-> ""]
                              ELSE [user |-> @.user \o m.inT, model |-> @.model \o m.outT],
                 !.expectedHistory = IF m.tc THEN @ \o expected ELSE @]
    IN  IF m.audio > 0 /\ r.outputAudioContextRef # 0
        THEN [r1 EXCEPT !.decoding = @ \cup {[id |-> id, sess |-> s, dur |-> m.audio]}]
        ELSE r1

\* onmessage after the await, the decode having produced a buffer: the
\* scheduling step.
scheduleChunk(r, c) ==
    LET o == r.outputAudioContextRef
        currentTime == r.clock[o]
        startTime == Max(currentTime, r.nextStartTimeRef)
    IN  [r EXCEPT !.decoding = @ \ {c},
                  !.nextStartTimeRef = startTime + c.dur,
                  !.audioSourcesRef = @ \cup {c.id},
                  !.scheduled = Append(@, [id |-> c.id, sess |-> c.sess, ctx |-> o,
                                           start |-> startTime, dur |-> c.dur,
                                           at |-> currentTime])]

\* a decode failure handled as a session error
decodeFailed_StopsSession(r, c) ==
    stopSession([r EXCEPT !.decoding = @ \ {c}, !.failedChunks = @ \cup {c}])

\* the decode failed: the await throws and the rest of onmessage is skipped
decodeFailed(r, c) ==
    [r EXCEPT !.decoding = @ \ {c}, !.failedChunks = @ \cup {c}]

onerror(r, s) ==
    stopSession([r EXCEPT !.status = StatusError, !.errored[s] = TRUE])

onclose(r, s) ==
    [r EXCEPT !.status = StatusSessionClosed,
              !.stream[s] = "stopped",
              !.isSessionActive = FALSE]

\* source.onended
onended(r, h) == [r EXCEPT !.audioSourcesRef = @ \ {h}]

\* ---------------------------------------------------------------------
\* ApiKeyProvider and the effect of LivePage that follows isApiKeySet
\* ---------------------------------------------------------------------
setApiKey(r, key) ==
    LET r1 == [r EXCEPT !.apiKey = key, !.keyChanges = @ + 1]
    IN  IF isApiKeySet(r1) = isApiKeySet(r) THEN r1
        ELSE [r1 EXCEPT !.status = IF isApiKeySet(r1) THEN StatusIdle ELSE StatusNoKey]

\* the component unmounts: the effect cleanup runs with the last rendered
\* isSessionActive
unmount(r) ==
    LET r1 == [r EXCEPT !.mounted = FALSE]
    IN  IF r.isSessionActive THEN stopSession(r1) ELSE r1

\* ---------------------------------------------------------------------
\* actions
\* ---------------------------------------------------------------------

Work == startCount + keyChanges + arrived + framesCaptured

\* the button: onClick = isSessionActive ? stopSession : startSession
ClickStart ==
    /\ mounted /\ ~isSessionActive
    /\ isApiKeySet(Cur)
    /\ startCount < MaxStarts /\ Work < MaxWork
    /\ Commit(Render(Cur, startSession(Cur)))

\* startSession called while no key is held.  (The button is disabled then,
\* disabled = !isApiKeySet && !isSessionActive; the function checks again.)
StartWithoutKey ==
    /\ mounted /\ ~isSessionActive
    /\ ~isApiKeySet(Cur)
    /\ Commit(Render(Cur, startSession(Cur)))

ClickStop ==
    /\ mounted /\ isSessionActive
    /\ Commit(Render(Cur, stopSession(Cur)))

MicGranted(s) ==
    /\ stream[s] = "requested"
    /\ Commit(Render(Cur, getUserMediaResolved(Cur, s)))

MicDenied(s) ==
    /\ stream[s] = "requested"
    /\ Commit(Render(Cur, getUserMediaRejected(Cur, s)))

\* the socket opens: onopen runs, then the connect promise fulfils
ConnectOpen(s) ==
    /\ socket[s] = "connecting" /\ promise[s] = "pending"
    /\ Commit(Render(Cur, settle(onopen([Cur EXCEPT !.socket[s] = "open"], s), s, "fulfilled")))

\* the connect promise rejects; no callback of the connection runs
ConnectReject(s) ==
    /\ promise[s] = "pending" /\ socket[s] # "open"
    /\ Commit(Render(Cur, settle([Cur EXCEPT !.socket[s] =
                                      IF @ = "connecting" THEN "closed" ELSE @],
                                 s, "rejected")))

\* the socket fails: onerror runs; its close event follows
TransportError(s) ==
    /\ socket[s] \in {"connecting", "open"}
    /\ Commit(Render(Cur, onerror([Cur EXCEPT !.socket[s] = "closing"], s)))

\* the close event: after session.close(), after a failure, or because the
\* remote side dropped the connection
TransportClosed(s) ==
    /\ socket[s] \in {"open", "closing"}
    /\ Commit(Render(Cur, onclose([Cur EXCEPT !.socket[s] = "closed"], s)))

Receive(s, m) ==
    /\ socket[s] = "open"
    /\ Work < MaxWork
    /\ Commit(Render(Cur, onmessage(Cur, s, m)))

\* a decode in flight settles, whichever it is; the rest of onmessage runs
DecodeDone ==
    \E c \in decoding :
        /\ "buffer" \in decodeAudioData(c)
        /\ Commit(Render(Cur, scheduleChunk(Cur, c)))

DecodeFail ==
    \E c \in decoding :
        /\ "DecodeError" \in decodeAudioData(c)
        /\ Commit(Render(Cur, decodeFailed(Cur, c)))

\* a scheduled source has played to its end on a running context
SourceEnded ==
    \E i \in DOMAIN scheduled :
        /\ scheduled[i].id \in audioSourcesRef
        /\ outputCtx[scheduled[i].ctx] = "running"
        /\ clock[scheduled[i].ctx] >= scheduled[i].start + scheduled[i].dur
        /\ Commit(Render(Cur, onended(Cur, scheduled[i].id)))

\* the capture node of start n fires while it is connected and its context runs
AudioProcess(n) ==
    /\ node[n] = "connected"
    /\ inputCtx[nodeCtx[n]] = "running"
    /\ Work < MaxWork
    /\ Commit(Render(Cur, onaudioprocess(Cur, n)))

\* the output clocks advance; a closed context's clock stands still
Tick ==
    /\ \E s \in Sessions : outputCtx[s] = "running" /\ clock[s] < MaxClock
    /\ Commit([Cur EXCEPT !.clock = [s \in Sessions |->
                  IF outputCtx[s] = "running" /\ clock[s] < MaxClock
                  THEN clock[s] + 1 ELSE clock[s]]])

SetApiKey(key) ==
    /\ key # apiKey
    /\ Work < MaxWork
    /\ Commit(Render(Cur, setApiKey(Cur, key)))

Unmount ==
    /\ mounted
    /\ Commit(unmount(Cur))

Next ==
    \/ ClickStart
    \/ StartWithoutKey
    \/ ClickStop
    \/ \E s \in Sessions : MicGranted(s)
    \/ \E s \in Sessions : MicDenied(s)
    \/ \E s \in Sessions : ConnectOpen(s)
    \/ \E s \in Sessions : ConnectReject(s)
    \/ \E s \in Sessions : TransportError(s)
    \/ \E s \in Sessions : TransportClosed(s)
    \/ \E s \in Sessions, m \in Messages : Receive(s, m)
    \/ DecodeDone
    \/ DecodeFail
    \/ SourceEnded
    \/ \E n \in Sessions : AudioProcess(n)
    \/ Tick
    \/ \E key \in {"", "k"} : SetApiKey(key)
    \/ Unmount

Spec == Init /\ [][Next]_vars

\* ---------------------------------------------------------------------
\* the frame encoder: new Int16Array(inputData.map(x => x * 32768))
\* ---------------------------------------------------------------------

\* the samples encoded: numerators k of x = k / (Scale * Frac), x in [-1, 1],
\* around -1, 0 and 1
Samples ==
    { k \in -(Scale * Frac) .. (Scale * Frac) :
         \/ k <= -(Scale * Frac) + EdgeWidth
         \/ (-EdgeWidth <= k /\ k <= EdgeWidth)
         \/ k >= (Scale * Frac) - EdgeWidth }

\* the integer part of k / d, rounded towards zero
Truncate(k, d) == IF k >= 0 THEN k \div d ELSE -((-k) \div d)

\* the conversion of a number to an Int16Array element: the integer part,
\* modulo 2^16, read as a signed 16-bit value
ToInt16(n) ==
    LET m == n % 65536
    IN  IF m >= 32768 THEN m - 65536 ELSE m

\* x => x * 32768, stored into the Int16Array; k is the numerator of x
encodeSample(k) == ToInt16(Truncate(k, Frac))

InitEncode ==
    /\ InitPage
    /\ InitNoVoices
    /\ InitNoTranscribe
    /\ InitNoKey
    /\ inputData \in Samples
    /\ pcmData = 0
    /\ encoded = FALSE

Encode ==
    /\ ~encoded
    /\ pcmData' = encodeSample(inputData)
    /\ encoded' = TRUE
    /\ UNCHANGED << notEncodeVars, inputData >>

NextEncode == Encode

SpecEncode == InitEncode /\ [][NextEncode]_vars

\* ---------------------------------------------------------------------
\* VoicesPage: handleCreateVoice and fetchVoices
\* ---------------------------------------------------------------------

ErrorNotLoggedIn == "You must be logged in to create a voice."
ErrorNeedName == "Please provide a display name and select a base voice."
ErrorUploadFailed == "Failed to upload one or more files."
ErrorDb == "dbError.message"
ErrorFetch == "Failed to fetch voices."

\* fetchVoices up to its await: a select on the 'voices' table is sent
fetchVoicesStart ==
    /\ loading' = TRUE
    /\ fetching' = fetching + 1

\* the page is shown: signed in or not, with the rows and samples stored
\* before; the effect of lines 39-46 has run
InitVoices ==
    /\ InitPage
    /\ InitNoSample
    /\ InitNoTranscribe
    /\ InitNoKey
    /\ session \in BOOLEAN
    /\ voices = {}
    /\ loading = session
    /\ fetching = IF session THEN 1 ELSE 0
    /\ showCreateForm = FALSE
    /\ newVoiceName = ""
    /\ files = 0
    /\ uploading = FALSE
    /\ voicesError = "null"
    /\ createPc = "idle"
    /\ voiceData = 0
    /\ fileIndex = 0
    /\ voicesTable = {}
    /\ voiceSamples = {}
    /\ created = 0

\* the 'Create New Voice' / 'Cancel' button
ToggleCreateForm ==
    /\ session /\ createPc = "idle"
    /\ showCreateForm' = ~showCreateForm
    /\ UNCHANGED << session, voices, loading, newVoiceName, files, uploading,
                    voicesError, createPc, voiceData, fileIndex, fetching,
                    voicesTable, voiceSamples, created >>
    /\ UNCHANGED notVoicesVars

\* the inputs of the form
SetNewVoiceName(n) ==
    /\ session /\ showCreateForm /\ createPc = "idle"
    /\ n # newVoiceName
    /\ newVoiceName' = n
    /\ UNCHANGED << session, voices, loading, showCreateForm, files, uploading,
                    voicesError, createPc, voiceData, fileIndex, fetching,
                    voicesTable, voiceSamples, created >>
    /\ UNCHANGED notVoicesVars

SetFiles(k) ==
    /\ session /\ showCreateForm /\ createPc = "idle"
    /\ k # files
    /\ files' = k
    /\ UNCHANGED << session, voices, loading, showCreateForm, newVoiceName,
                    uploading, voicesError, createPc, voiceData, fileIndex,
                    fetching, voicesTable, voiceSamples, created >>
    /\ UNCHANGED notVoicesVars

\* handleCreateVoice up to the await of the insert
handleCreateVoice ==
    /\ createPc = "idle"
    /\ IF ~session
       THEN /\ voicesError' = ErrorNotLoggedIn
            /\ UNCHANGED << uploading, createPc, created >>
       ELSE IF newVoiceName = ""
       THEN /\ voicesError' = ErrorNeedName
            /\ UNCHANGED << uploading, createPc, created >>
       ELSE /\ uploading' = TRUE
            /\ voicesError' = "null"
            /\ createPc' = "insert"
            /\ created' = created + 1
    /\ UNCHANGED << session, voices, loading, showCreateForm, newVoiceName,
                    files, voiceData, fileIndex, fetching, voicesTable,
                    voiceSamples >>

\* the form is submitted; the submit button is disabled while uploading
SubmitCreateForm ==
    /\ session /\ showCreateForm /\ ~uploading
    /\ created < MaxCreates
    /\ handleCreateVoice
    /\ UNCHANGED notVoicesVars

\* handleCreateVoice called with nobody signed in (the page shows no form
\* then; the function checks again)
SubmitNotSignedIn ==
    /\ ~session
    /\ voicesError # ErrorNotLoggedIn
    /\ handleCreateVoice
    /\ UNCHANGED notVoicesVars

\* lines 98-102 and the finally block: the form is reset and closed and the
\* list is fetched again
createSucceeded ==
    /\ newVoiceName' = ""
    /\ files' = 0
    /\ showCreateForm' = FALSE
    /\ fetchVoicesStart
    /\ uploading' = FALSE
    /\ createPc' = "idle"
    /\ UNCHANGED << session, voices, voicesError >>

\* the catch and finally blocks
createFailed(message) ==
    /\ voicesError' = message
    /\ uploading' = FALSE
    /\ createPc' = "idle"
    /\ UNCHANGED << session, voices, loading, showCreateForm, newVoiceName,
                    files, fetching >>

\* the insert returned the new row
InsertDone ==
    /\ createPc = "insert"
    /\ voiceData' = created
    /\ voicesTable' = voicesTable \cup {[id |-> created, files |-> files]}
    /\ IF files > 0
       THEN /\ createPc' = "upload"
            /\ fileIndex' = 1
            /\ UNCHANGED << session, voices, loading, showCreateForm,
                            newVoiceName, files, uploading, voicesError,
                            fetching >>
       ELSE /\ createSucceeded
            /\ UNCHANGED fileIndex
    /\ UNCHANGED << voiceSamples, created >>
    /\ UNCHANGED notVoicesVars

\* the insert returned dbError
InsertFailed ==
    /\ createPc = "insert"
    /\ createFailed(ErrorDb)
    /\ UNCHANGED << voiceData, fileIndex, voicesTable, voiceSamples, created >>
    /\ UNCHANGED notVoicesVars

\* the upload of file fileIndex succeeded
UploadDone ==
    /\ createPc = "upload"
    /\ voiceSamples' = voiceSamples \cup {<< voiceData, fileIndex >>}
    /\ IF fileIndex < files
       THEN /\ fileIndex' = fileIndex + 1
            /\ UNCHANGED << session, voices, loading, showCreateForm,
                            newVoiceName, files, uploading, voicesError,
                            createPc, fetching >>
       ELSE /\ createSucceeded
            /\ UNCHANGED fileIndex
    /\ UNCHANGED << voiceData, voicesTable, created >>
    /\ UNCHANGED notVoicesVars

\* the upload of file fileIndex returned uploadError: the delete of the
\* voice record is sent
UploadFailed ==
    /\ createPc = "upload"
    /\ createPc' = "delete"
    /\ UNCHANGED << session, voices, loading, showCreateForm, newVoiceName,
                    files, uploading, voicesError, voiceData, fileIndex,
                    fetching, voicesTable, voiceSamples, created >>
    /\ UNCHANGED notVoicesVars

\* the delete removed the row; the error is thrown
DeleteDone ==
    /\ createPc = "delete"
    /\ voicesTable' = {row \in voicesTable : row.id # voiceData}
    /\ createFailed(ErrorUploadFailed)
    /\ UNCHANGED << voiceData, fileIndex, voiceSamples, created >>
    /\ UNCHANGED notVoicesVars

\* the delete returned an error, which nothing reads; the error is thrown
DeleteFailed ==
    /\ createPc = "delete"
    /\ createFailed(ErrorUploadFailed)
    /\ UNCHANGED << voiceData, fileIndex, voicesTable, voiceSamples, created >>
    /\ UNCHANGED notVoicesVars

\* a select of fetchVoices returned the rows
FetchDone ==
    /\ fetching > 0
    /\ fetching' = fetching - 1
    /\ voices' = {row.id : row \in voicesTable}
    /\ loading' = FALSE
    /\ UNCHANGED << session, showCreateForm, newVoiceName, files, uploading,
                    voicesError, createPc, voiceData, fileIndex, voicesTable,
                    voiceSamples, created >>
    /\ UNCHANGED notVoicesVars

\* a select of fetchVoices returned an error
FetchFailed ==
    /\ fetching > 0
    /\ fetching' = fetching - 1
    /\ voicesError' = ErrorFetch
    /\ loading' = FALSE
    /\ UNCHANGED << session, voices, showCreateForm, newVoiceName, files,
                    uploading, createPc, voiceData, fileIndex, voicesTable,
                    voiceSamples, created >>
    /\ UNCHANGED notVoicesVars

NextVoices ==
    \/ ToggleCreateForm
    \/ \E n \in {"", "n"} : SetNewVoiceName(n)
    \/ \E k \in 0..MaxFiles : SetFiles(k)
    \/ SubmitCreateForm
    \/ SubmitNotSignedIn
    \/ InsertDone
    \/ InsertFailed
    \/ UploadDone
    \/ UploadFailed
    \/ DeleteDone
    \/ DeleteFailed
    \/ FetchDone
    \/ FetchFailed

SpecVoices == InitVoices /\ [][NextVoices]_vars

\* ---------------------------------------------------------------------
\* TranscribePage: handleStartRecording and handleStopRecording
\* ---------------------------------------------------------------------

ErrorMicrophone == "Could not access microphone. Please check permissions."
ErrorTranscribe == "Failed to transcribe audio. Please try again."

\* the page is shown with a key set (the button is disabled without one)
InitTranscribe ==
    /\ InitPage
    /\ apiKey # ""
    /\ InitNoSample
    /\ InitNoVoices
    /\ InitNoTranscribe
    /\ InitNoKey

\* MediaRecorder.stop() of recorder r among the recorder states st and the
\* queued stop tasks: the recorder is inactive at once; its dataavailable
\* and stop events are queued
recorderStop(st, tasks, r) ==
    [state |-> [st EXCEPT ![r] = "inactive"], tasks |-> tasks \cup {r}]

\* processRecording up to reader.readAsDataURL: the blob is made of the
\* chunks pushed so far
processRecording(chunks) ==
    /\ isRecording' = FALSE
    /\ transcribing' = TRUE
    /\ reads' = reads \cup {[n |-> processed + 1, rec |-> mediaRecorderRef,
                             blob |-> chunks]}
    /\ processed' = processed + 1

\* handleStopRecording, called with the chunks pushed so far and the stop
\* tasks still queued
handleStopRecording(chunks, tasks) ==
    IF mediaRecorderRef = 0
    THEN /\ stopTask' = tasks
         /\ UNCHANGED << isRecording, transcribing, reads, processed,
                         recorderState >>
    ELSE IF recorderState[mediaRecorderRef] = "recording"
    THEN /\ recorderState' =
                recorderStop(recorderState, tasks, mediaRecorderRef).state
         /\ stopTask' =
                recorderStop(recorderState, tasks, mediaRecorderRef).tasks
         /\ UNCHANGED << isRecording, transcribing, reads, processed >>
    ELSE /\ processRecording(chunks)
         /\ stopTask' = tasks
         /\ UNCHANGED recorderState

\* the button while it reads 'Start Recording': handleStartRecording up to
\* the await of getUserMedia
ClickStartRecording ==
    /\ ~isRecording
    /\ recordings + micRequests < MaxRecordings
    /\ micRequests' = micRequests + 1
    /\ UNCHANGED << isRecording, transcribing, transcription, transcribeError,
                    mediaRecorderRef, audioChunksRef, recorderState, trackState,
                    stopTask, recordings, reads, requests, requestsSent,
                    processed >>
    /\ UNCHANGED notTranscribeVars

\* getUserMedia resolved: the rest of handleStartRecording
RecorderStarted ==
    /\ micRequests > 0
    /\ micRequests' = micRequests - 1
    /\ recordings' = recordings + 1
    /\ mediaRecorderRef' = recordings + 1
    /\ recorderState' = [recorderState EXCEPT ![recordings + 1] = "recording"]
    /\ trackState' = [trackState EXCEPT ![recordings + 1] = "live"]
    /\ audioChunksRef' = {}
    /\ isRecording' = TRUE
    /\ transcription' = << >>
    /\ transcribeError' = "null"
    /\ UNCHANGED << transcribing, stopTask, reads, requests, requestsSent,
                    processed >>
    /\ UNCHANGED notTranscribeVars

\* getUserMedia rejected: the catch block
MicrophoneRefused ==
    /\ micRequests > 0
    /\ micRequests' = micRequests - 1
    /\ transcribeError' = ErrorMicrophone
    /\ UNCHANGED << isRecording, transcribing, transcription, mediaRecorderRef,
                    audioChunksRef, recorderState, trackState, stopTask,
                    recordings, reads, requests, requestsSent, processed >>
    /\ UNCHANGED notTranscribeVars

\* the button while it reads 'Stop Recording'
ClickStopRecording ==
    /\ isRecording
    /\ processed < MaxProcessed
    /\ handleStopRecording(audioChunksRef, stopTask)
    /\ UNCHANGED << transcription, transcribeError, mediaRecorderRef,
                    audioChunksRef, trackState, micRequests, recordings,
                    requests, requestsSent >>
    /\ UNCHANGED notTranscribeVars

\* the queued task of recorder r: ondataavailable pushes its data, then
\* onstop calls handleStopRecording
StopEvent(r) ==
    /\ r \in stopTask
    /\ processed < MaxProcessed
    /\ audioChunksRef' = audioChunksRef \cup {r}
    /\ handleStopRecording(audioChunksRef \cup {r}, stopTask \ {r})
    /\ UNCHANGED << transcription, transcribeError, mediaRecorderRef,
                    trackState, micRequests, recordings, requests,
                    requestsSent >>
    /\ UNCHANGED notTranscribeVars

\* reader.onloadend up to the await: the transcription request is sent
ReadLoaded(x) ==
    /\ x \in reads
    /\ reads' = reads \ {x}
    /\ requests' = requests \cup {x}
    /\ requestsSent' = [requestsSent EXCEPT ![x.rec] = @ + 1]
    /\ UNCHANGED << isRecording, transcribing, transcription, transcribeError,
                    mediaRecorderRef, audioChunksRef, recorderState, trackState,
                    stopTask, micRequests, recordings, processed >>
    /\ UNCHANGED notTranscribeVars

\* the finally block: the tracks of the recorder in the ref are stopped; a
\* recorder still recording stops when all its tracks have ended
requestFinally ==
    /\ transcribing' = FALSE
    /\ IF mediaRecorderRef = 0
       THEN UNCHANGED << trackState, recorderState, stopTask >>
       ELSE /\ trackState' = [trackState EXCEPT ![mediaRecorderRef] = "ended"]
            /\ IF recorderState[mediaRecorderRef] = "recording"
               THEN /\ recorderState' =
                        recorderStop(recorderState, stopTask,
                                     mediaRecorderRef).state
                    /\ stopTask' =
                        recorderStop(recorderState, stopTask,
                                     mediaRecorderRef).tasks
               ELSE UNCHANGED << recorderState, stopTask >>

\* generateContent returned the text of the blob
RequestDone(x) ==
    /\ x \in requests
    /\ requests' = requests \ {x}
    /\ transcription' = << x.blob >>
    /\ requestFinally
    /\ UNCHANGED << isRecording, transcribeError, mediaRecorderRef,
                    audioChunksRef, micRequests, recordings, reads,
                    requestsSent, processed >>
    /\ UNCHANGED notTranscribeVars

\* generateContent threw
RequestFailed(x) ==
    /\ x \in requests
    /\ requests' = requests \ {x}
    /\ transcribeError' = ErrorTranscribe
    /\ requestFinally
    /\ UNCHANGED << isRecording, transcription, mediaRecorderRef,
                    audioChunksRef, micRequests, recordings, reads,
                    requestsSent, processed >>
    /\ UNCHANGED notTranscribeVars

NextTranscribe ==
    \/ ClickStartRecording
    \/ RecorderStarted
    \/ MicrophoneRefused
    \/ ClickStopRecording
    \/ \E r \in 1..MaxRecordings : StopEvent(r)
    \/ \E x \in reads : ReadLoaded(x)
    \/ \E x \in requests : RequestDone(x)
    \/ \E x \in requests : RequestFailed(x)

SpecTranscribe == InitTranscribe /\ [][NextTranscribe]_vars

\* ---------------------------------------------------------------------
\* ApiKeyProvider and ApiKeyModal
\* ---------------------------------------------------------------------

\* what can be typed into the modal: a key character or white space
KeyChars == {" ", "k"}

RECURSIVE KeyTexts(_)
KeyTexts(n) ==
    IF n = 0 THEN {""}
    ELSE KeyTexts(n - 1) \cup {t \o c : t \in KeyTexts(n - 1), c \in KeyChars}

\* String.prototype.trim
RECURSIVE trimStart(_)
trimStart(t) ==
    IF Len(t) > 0 /\ SubSeq(t, 1, 1) = " "
    THEN trimStart(SubSeq(t, 2, Len(t)))
    ELSE t

RECURSIVE trimEnd(_)
trimEnd(t) ==
    IF Len(t) > 0 /\ SubSeq(t, Len(t), Len(t)) = " "
    THEN trimEnd(SubSeq(t, 1, Len(t) - 1))
    ELSE t

trim(t) == trimEnd(trimStart(t))

\* a string or null as a condition: null is {}, a string t is {t}
Truthy(key) == \E t \in key : t # ""

\* line 34 of the provider
providerIsApiKeySet == Truthy(providerKey)

\* apiKey || ''
KeyOrEmpty == IF Truthy(providerKey) THEN CHOOSE t \in providerKey : TRUE ELSE ""

\* the provider is constructed: its key is the persisted entry, absent or a
\* key saved before; the modal is mounted closed
InitKey ==
    /\ InitPage
    /\ InitNoSample
    /\ InitNoVoices
    /\ InitNoTranscribe
    /\ localStorageKey = IF apiKey = "" THEN {} ELSE {apiKey}
    /\ providerKey = localStorageKey
    /\ isApiKeyModalOpen = FALSE
    /\ localKey = KeyOrEmpty

\* setApiKey of the provider with localStorage working, storing also a key
\* that is empty
providerSetApiKey_AlwaysStores(key) ==
    /\ providerKey' = {key}
    /\ localStorageKey' = {key}

\* setApiKey of the provider, with localStorage working
providerSetApiKey(key) ==
    /\ providerKey' = {key}
    /\ localStorageKey' = IF key # "" THEN {key} ELSE {}

\* the 'Set API Key' / 'Update API Key' button of MainApp
OpenApiKeyModal ==
    /\ ~isApiKeyModalOpen
    /\ isApiKeyModalOpen' = TRUE
    /\ UNCHANGED << providerKey, localStorageKey, localKey >>
    /\ UNCHANGED notKeyVars

\* the input of the modal
SetLocalKey(t) ==
    /\ isApiKeyModalOpen
    /\ t # localKey
    /\ localKey' = t
    /\ UNCHANGED << providerKey, localStorageKey, isApiKeyModalOpen >>
    /\ UNCHANGED notKeyVars

\* the 'Save' button of the modal
handleSave ==
    /\ isApiKeyModalOpen
    /\ providerSetApiKey(trim(localKey))
    /\ isApiKeyModalOpen' = FALSE
    /\ UNCHANGED localKey
    /\ UNCHANGED notKeyVars

\* the close button and the backdrop of the modal
handleClose ==
    /\ isApiKeyModalOpen
    /\ localKey' = KeyOrEmpty
    /\ isApiKeyModalOpen' = FALSE
    /\ UNCHANGED << providerKey, localStorageKey >>
    /\ UNCHANGED notKeyVars

NextKey ==
    \/ OpenApiKeyModal
    \/ \E t \in KeyTexts(MaxKeyLen) : SetLocalKey(t)
    \/ handleSave
    \/ handleClose

SpecKey == InitKey /\ [][NextKey]_vars

\* ---------------------------------------------------------------------
\* properties
\* ---------------------------------------------------------------------

\* start s has asked for the microphone, or holds it and waits for the
\* transport to open
Initializing(s) ==
    \/ stream[s] = "requested"
    \/ stream[s] = "live" /\ socket[s] = "connecting"

\* start s holds nothing and nothing of it is pending
Released(s) ==
    /\ stream[s] \in {"none", "denied", "stopped"}
    /\ socket[s] \in {"none", "closed"}
    /\ inputCtx[s] # "running"
    /\ outputCtx[s] # "running"
    /\ node[s] # "connected"
    /\ waiters[s] = << >>

\* no callback of a closing connection, no decode and no suspended
\* stopSession is still to come
Quiescent ==
    /\ decoding = {}
    /\ \A s \in Sessions : socket[s] # "closing" /\ waiters[s] = << >>

\* C1: a start() invoked while some start is still Initializing is rejected:
\* it begins no new session (no microphone request, no connection).
C1_StartRejectedUnlessIdle ==
    [][(\E s \in Sessions : Initializing(s)) => startCount' = startCount]_vars

\* C2: once stop() has run and nothing is pending any more, the playback
\* handles are gone, no transport is open, the capture device is released
\* and the status is Idle, all in the same state.
C2_StopLeavesIdle ==
    (mounted /\ stopDone /\ Quiescent) =>
        /\ audioSourcesRef = {}
        /\ \A s \in Sessions :
              /\ socket[s] \notin {"connecting", "open"}
              /\ stream[s] # "live"
              /\ node[s] # "connected"
        /\ ~isSessionActive
        /\ status = StatusIdle

\* C3: in arrival order the scheduled items of a session do not overlap, and
\* none starts before the output clock read when it was scheduled.
C3_NoOverlapInArrivalOrder ==
    \A i \in DOMAIN scheduled :
        /\ scheduled[i].start >= scheduled[i].at
        /\ \A j \in DOMAIN scheduled :
              (scheduled[i].sess = scheduled[j].sess /\ scheduled[i].id < scheduled[j].id)
                  => scheduled[j].start >= scheduled[i].start + scheduled[i].dur

\* C4: the transcript is one User turn then one Model turn per TurnComplete,
\* each holding the deltas of its speaker since the previous TurnComplete.
C4_TurnsHoldDeltasSinceLastTurn ==
    mounted => transcriptionHistory = expectedHistory

\* C5: a start() while no key is held requests no microphone and opens no
\* connection; the step that reports it sets the configuration-error status
\* and changes nothing else, the session staying not active.
C5_NoKeyStartAcquiresNothing ==
    [][ /\ apiKey = "" =>
            /\ startCount' = startCount
            /\ \A s \in Sessions :
                  /\ stream'[s] = "requested" => stream[s] = "requested"
                  /\ socket'[s] = "connecting" => socket[s] = "connecting" \/ stream[s] = "requested"
        /\ (status # StatusPleaseSetKey /\ status' = StatusPleaseSetKey) =>
            /\ apiKey = ""
            /\ ~isSessionActive'
            /\ UNCHANGED << mounted, apiKey, isSessionActive, transcriptionHistory,
                            currentInput, currentOutput, sessionPromiseRef,
                            inputAudioContextRef, outputAudioContextRef,
                            scriptProcessorRef, mediaStreamSourceRef,
                            nextStartTimeRef, audioSourcesRef, stream, inputCtx,
                            outputCtx, socket, promise, node, nodeCtx, closure,
                            waiters, decoding, clock, sent, startCount >>
      ]_vars

\* a start() without a key has been reported and nothing was acquired
C5_Witness ==
    /\ status = StatusPleaseSetKey
    /\ apiKey = ""
    /\ \A s \in Sessions : stream[s] = "none" /\ socket[s] = "none"

\* C6: the step that reports a transport error runs the cleanup of stop()
\* and leaves the error as what the caller sees.
C6_ErrorCleansUpAndIsSurfaced ==
    [][\A s \in Sessions :
          (~errored[s] /\ errored'[s] /\ mounted' /\ promise[s] # "pending") =>
              /\ socket'[s] # "open"
              /\ audioSourcesRef' = {}
              /\ ~isSessionActive'
              /\ status' = StatusError
      ]_vars

\* C7: when the connect promise of a start has rejected, the microphone
\* stream and the contexts that start acquired are released and the status
\* is no longer Initializing.
C7_ConnectFailureReleases ==
    \A s \in Sessions :
        (mounted /\ promise[s] = "rejected" /\ socket[s] = "closed" /\ ~errored[s]) =>
            /\ stream[s] # "live"
            /\ inputCtx[s] = "closed"
            /\ outputCtx[s] = "closed"
            /\ status # StatusInitializing

\* C8: a start whose microphone request was refused never gets a
\* connection, contexts, capture nodes or frames and is not retried; the
\* refusal step reports the failure and changes nothing else, and when no
\* other start holds anything the session is not active afterwards.
C8_Refused(s) ==
    stream[s] = "denied" =>
        /\ socket[s] = "none" /\ promise[s] = "none"
        /\ inputCtx[s] = "none" /\ outputCtx[s] = "none"
        /\ node[s] = "none"
        /\ sent[s] = << >> /\ waiters[s] = << >>

C8_RefusalStep(s) ==
    /\ stream[s] = "denied" => stream'[s] = "denied"
    /\ (stream[s] = "requested" /\ stream'[s] = "denied") =>
          /\ mounted' => status' = StatusFailedToStart
          /\ startCount' = startCount
          /\ \A t \in Sessions \ {s} : stream'[t] = stream[t]
          /\ (\A t \in Sessions \ {s} : Released(t)) => ~isSessionActive'
          /\ UNCHANGED << mounted, apiKey, isSessionActive, transcriptionHistory,
                          currentInput, currentOutput, sessionPromiseRef,
                          inputAudioContextRef, outputAudioContextRef,
                          scriptProcessorRef, mediaStreamSourceRef,
                          nextStartTimeRef, audioSourcesRef, inputCtx,
                          outputCtx, socket, promise, node, nodeCtx, closure,
                          waiters, decoding, clock, sent, framesCaptured >>

C8_MicRefusedEndsIdle ==
    /\ [](\A s \in Sessions : C8_Refused(s))
    /\ [][\A s \in Sessions : C8_RefusalStep(s)]_vars

\* the only start was refused: failure shown, not active, start possible
C8_Witness ==
    /\ startCount = 1
    /\ stream[1] = "denied"
    /\ status = StatusFailedToStart
    /\ mounted /\ ~isSessionActive /\ apiKey # ""

\* C9: a decode failure removes that chunk from the decodes in flight and
\* changes nothing else: what was scheduled stays scheduled, the other
\* decodes stay in flight, transcript and session state are untouched.
C9_DecodeFailureIsIsolated ==
    [][\A c \in decoding :
          (c \in failedChunks' /\ c \notin failedChunks) =>
              /\ decoding' = decoding \ {c}
              /\ UNCHANGED << mounted, apiKey, status, isSessionActive,
                              transcriptionHistory, currentInput, currentOutput,
                              sessionPromiseRef, inputAudioContextRef,
                              outputAudioContextRef, scriptProcessorRef,
                              mediaStreamSourceRef, nextStartTimeRef,
                              audioSourcesRef, stream, inputCtx, outputCtx,
                              socket, promise, node, nodeCtx, closure, waiters,
                              clock, sent, scheduled >>
      ]_vars

\* chunk 2 of 3 failed to decode, chunks 1 and 3 are scheduled and the
\* session is still active
C9_Witness ==
    /\ mounted /\ isSessionActive /\ status = StatusConnected
    /\ \E f \in failedChunks : \E i, j \in DOMAIN scheduled :
          /\ scheduled[i].sess = f.sess /\ scheduled[j].sess = f.sess
          /\ scheduled[i].id < f.id /\ f.id < scheduled[j].id
          /\ socket[f.sess] = "open"

\* the audio chunks of a session that have arrived so far
AudioChunks(s) ==
    {c \in decoding \cup failedChunks : c.sess = s}
        \cup {[id |-> scheduled[i].id, sess |-> s, dur |-> scheduled[i].dur] :
                 i \in {k \in DOMAIN scheduled : scheduled[k].sess = s}}

\* C10: for chunks of a session that arrived one after the other, the later
\* one starts where the earlier one ends, or at the clock value read when it
\* is scheduled if the clock has passed that point.
C10_Gapless ==
    \A i, j \in DOMAIN scheduled :
        ( /\ scheduled[i].sess = scheduled[j].sess
          /\ scheduled[i].id < scheduled[j].id
          /\ ~ \E c \in AudioChunks(scheduled[i].sess) :
                  scheduled[i].id < c.id /\ c.id < scheduled[j].id )
        => scheduled[j].start =
              IF scheduled[i].start + scheduled[i].dur >= scheduled[j].at
              THEN scheduled[i].start + scheduled[i].dur
              ELSE scheduled[j].at

\* C11: stop() is idempotent: where a stop() has finished and nothing is
\* pending, a further stop() changes nothing, and that state is Idle with
\* every resource released.
C11_StopIdempotent ==
    (mounted /\ stopDone /\ Quiescent) =>
        /\ stopSession(Cur) = Cur
        /\ status = StatusIdle /\ ~isSessionActive
        /\ \A s \in Sessions : Released(s)

\* a second stop() issued right after a first, or while the first is
\* suspended, leaves what the first alone leaves
C11_SecondStopRepeatsFirst ==
    stopSession(stopSession(Cur)) = stopSession(Cur)

\* C12: the encoded value of a sample x in [-1, 1] lies in the signed 16-bit
\* range without having wrapped, and value / 32768 differs from x by at most
\* one quantization step 1 / 32768.
C12_EncodeWithinOneStep ==
    encoded =>
        /\ -32768 <= pcmData /\ pcmData <= 32767
        /\ pcmData * Frac - inputData <= Frac
        /\ inputData - pcmData * Frac <= Frac

\* the frames handed to one connection, in the order they were captured and
\* none twice
InCaptureOrder(q) ==
    \A i, j \in DOMAIN q : i < j => q[i] < q[j]

\* C13: while the session is active no captured frame is dropped, and every
\* connection is handed its frames once each, in capture order.
C13_EveryFrameSentInOrder ==
    /\ [][isSessionActive => lostFrames' = lostFrames]_vars
    /\ [](\A s \in Sessions : InCaptureOrder(sent[s]))

\* C14: the step in which the remote side drops the open connection of the
\* active session leaves the microphone tracks stopped, both audio contexts
\* of that session closed, the playback handles cancelled and the set
\* empty, and the session Idle.
C14_RemoteDropCleansUp ==
    [][\A s \in Sessions :
          ( /\ mounted /\ isSessionActive
            /\ node[s] = "connected"
            /\ socket[s] = "open" /\ socket'[s] = "closed" ) =>
              /\ stream'[s] = "stopped"
              /\ inputCtx'[s] = "closed"
              /\ outputCtx'[s] = "closed"
              /\ node'[s] = "disconnected"
              /\ audioSourcesRef' = {}
              /\ ~isSessionActive'
              /\ status' = StatusIdle
      ]_vars

\* C15: the status reads "Idle" only while no session is initializing or
\* active: no start is waiting for the microphone or the transport, no
\* transport is open and no capture node is running.
C15_IdleStatusMeansIdle ==
    (mounted /\ status = StatusIdle) =>
        /\ ~isSessionActive
        /\ \A s \in Sessions :
              /\ ~Initializing(s)
              /\ socket[s] # "open"
              /\ ~(node[s] = "connected" /\ inputCtx[nodeCtx[s]] = "running")

\* C16: once stop() has completed, and until the next start(), no step of
\* the mounted page
\* schedules a playback item, puts a handle into the active set or touches
\* the transcript and the partial buffers.
C16_NoMessageEffectAfterStop ==
    [][(mounted /\ mounted' /\ stopDone /\ stopDone') =>
          /\ scheduled' = scheduled
          /\ audioSourcesRef' = {}
          /\ UNCHANGED << transcriptionHistory, currentInput, currentOutput >>
      ]_vars

\* C17: of two audio chunks of a session, the one that arrived first is
\* scheduled first and gets the earlier start.
C17_ScheduledInArrivalOrder ==
    \A i, j \in DOMAIN scheduled :
        (scheduled[i].sess = scheduled[j].sess /\ scheduled[i].id < scheduled[j].id)
            => (i < j /\ scheduled[i].start < scheduled[j].start)

\* chunk c came in a message that also carried a transcription delta or a
\* TurnComplete
CarriesTranscript(c) ==
    \A m \in Messages :
        m.audio = c.dur => (m.inT # "" \/ m.outT # "" \/ m.tc)

\* C18: while the audio chunk of a message that also carried a transcript
\* effect is not yet scheduled, no later message changes the transcript or
\* the partial buffers and no later chunk is scheduled.
C18_MessageEffectsNotInterleaved ==
    [][\A c \in decoding :
          (mounted /\ CarriesTranscript(c) /\ c \in decoding') =>
              /\ arrived' # arrived =>
                    UNCHANGED << transcriptionHistory, currentInput, currentOutput >>
              /\ \A i \in DOMAIN scheduled' :
                    i > Len(scheduled) => scheduled'[i].id < c.id
      ]_vars

\* a stopSession call is suspended on the connect promise of start s
StopSuspended(s) ==
    \E i \in DOMAIN waiters[s] : waiters[s][i].k = "stop"

\* C19: stop() does not wait for outstanding work: no stop() is left
\* suspended behind a connect that has not completed, with the capture
\* device held, the contexts open or the state not Idle.
C19_StopDoesNotWait ==
    \A s \in Sessions :
        (mounted /\ StopSuspended(s) /\ promise[s] = "pending") =>
            /\ status = StatusIdle /\ ~isSessionActive
            /\ audioSourcesRef = {}
            /\ \A t \in Sessions :
                  /\ stream[t] # "live"
                  /\ inputCtx[t] # "running" /\ outputCtx[t] # "running"
                  /\ node[t] # "connected"

\* C20: the step in which stop() completes leaves the active handle set
\* empty and the scheduler's next start time at 0.
C20_StopResetsScheduler ==
    [][(~stopDone /\ stopDone') =>
          /\ audioSourcesRef' = {}
          /\ nextStartTimeRef' = 0
      ]_vars

\* C21: the step that handles a TurnComplete appends exactly one User turn
\* and then one Model turn to the transcript, whatever the buffers hold, and
\* leaves both partial buffers empty; nothing else appends to the transcript.
C21_TurnCompleteEmitsBothAndResets ==
    [][ /\ (mounted' /\ Len(expectedHistory') = Len(expectedHistory) + 2) =>
            LET n == Len(transcriptionHistory)
            IN  /\ Len(transcriptionHistory') = n + 2
                /\ SubSeq(transcriptionHistory', 1, n) = transcriptionHistory
                /\ transcriptionHistory'[n + 1].type = "user"
                /\ transcriptionHistory'[n + 2].type = "model"
                /\ currentInput' = ""
                /\ currentOutput' = ""
        /\ (mounted' /\ Len(transcriptionHistory') > Len(transcriptionHistory)) =>
            Len(expectedHistory') = Len(expectedHistory) + 2
      ]_vars

\* a TurnComplete arrived while both buffers were empty: two empty-text
\* turns were emitted and the buffers are empty
C21_Witness ==
    /\ mounted
    /\ Len(transcriptionHistory) = 2
    /\ expectedHistory = << [type |-> "user", text |-> ""],
                            [type |-> "model", text |-> ""] >>
    /\ transcriptionHistory = expectedHistory
    /\ currentInput = "" /\ currentOutput = ""

\* this step handles a TurnComplete message of some session that also
\* carries a transcription delta: the turn the session's deltas make up is
\* longer than what the session had received before the message
TurnCompleteWithDelta ==
    /\ mounted'
    /\ Len(expectedHistory') = Len(expectedHistory) + 2
    /\ \E s \in Sessions :
          /\ since'[s] = [user |-> "", model |-> ""]
          /\ \A t \in Sessions \ {s} : since'[t] = since[t]
          /\ \/ expectedHistory'[Len(expectedHistory') - 1].text # since[s].user
             \/ expectedHistory'[Len(expectedHistory')].text # since[s].model

\* C22: when the message that carries TurnComplete also carries a delta, the
\* finalized turn's text is the earlier deltas of the turn followed by that
\* delta once.
C22_FinalDeltaOnceAfterEarlierDeltas ==
    [][TurnCompleteWithDelta =>
          LET n == Len(transcriptionHistory')
              e == Len(expectedHistory')
          IN  /\ n >= 2
              /\ transcriptionHistory'[n - 1].text = expectedHistory'[e - 1].text
              /\ transcriptionHistory'[n].text = expectedHistory'[e].text
      ]_vars

EndsWith(e, t) ==
    /\ Len(t) <= Len(e)
    /\ SubSeq(e, Len(e) - Len(t) + 1, Len(e)) = t

\* C24: a start() leaves the partial buffers and the transcript empty, and
\* the first finalized turn after it holds only deltas received in that
\* session: its text is the end of what the session's deltas make up.
C24_FirstTurnHasNoLeftover ==
    [][ /\ (mounted' /\ startCount' = startCount + 1) =>
            /\ currentInput' = "" /\ currentOutput' = ""
            /\ transcriptionHistory' = << >>
        /\ (mounted' /\ transcriptionHistory = << >> /\ Len(transcriptionHistory') = 2
              /\ Len(expectedHistory') = Len(expectedHistory) + 2) =>
            LET e == Len(expectedHistory')
            IN  /\ EndsWith(expectedHistory'[e - 1].text, transcriptionHistory'[1].text)
                /\ EndsWith(expectedHistory'[e].text, transcriptionHistory'[2].text)
      ]_vars

\* start t was made after the connection of start s was closed by stop()
\* and that connection's close event is delivered in this step
CloseEventOfEarlierSession(s, t) ==
    /\ s < t
    /\ socket[s] = "closing" /\ socket'[s] = "closed"
    /\ ~errored[s]
    /\ stream[t] # "none"

\* C25: a chunk of a session is only ever scheduled on that session's own
\* output context, and the late close event of a stopped session changes
\* neither the handle set, the next start time nor the transcript of the
\* session started after it.
C25_SessionsIsolated ==
    /\ [](\A i \in DOMAIN scheduled : scheduled[i].ctx = scheduled[i].sess)
    /\ [][\A s, t \in Sessions :
            (mounted /\ CloseEventOfEarlierSession(s, t)) =>
                UNCHANGED << audioSourcesRef, nextStartTimeRef,
                             transcriptionHistory, currentInput, currentOutput >>
         ]_vars

\* C26: after the page has been left no microphone stream is acquired, no
\* connection is opened and no capture chain is wired any more, and once
\* the callbacks of connections being closed have run nothing is held.
C26_UnmountStopsSession ==
    /\ [][~mounted =>
            \A s \in Sessions :
                /\ stream'[s] = "live" => stream[s] = "live"
                /\ socket'[s] = "connecting" => socket[s] = "connecting"
                /\ socket'[s] = "open" => socket[s] = "open"
                /\ node'[s] = "connected" => node[s] = "connected"
         ]_vars
    /\ []((~mounted /\ Quiescent) => \A s \in Sessions :
            /\ stream[s] # "live"
            /\ socket[s] \notin {"connecting", "open"}
            /\ node[s] # "connected")

AllSamplesUploaded(row) ==
    \A k \in 1..row.files : << row.id, k >> \in voiceSamples

\* C28: when an upload has failed, handleCreateVoice ends with the inserted
\* record gone, the error shown, the form open with its inputs and the
\* uploading flag false; and whenever no creation is running, every voice
\* record has all of its samples.
C28_CreateVoiceAllOrNothing ==
    /\ [][(createPc = "delete" /\ createPc' = "idle") =>
            /\ \A row \in voicesTable' : row.id # voiceData
            /\ voicesError' = ErrorUploadFailed
            /\ showCreateForm' /\ newVoiceName' = newVoiceName /\ files' = files
            /\ ~uploading'
         ]_vars
    /\ [](createPc = "idle" => \A row \in voicesTable : AllSamplesUploaded(row))

\* C29: each stopped recording leads to exactly one transcription request,
\* also when the stop handler runs again from the recorder's stop event;
\* and when that request has succeeded or failed, transcribing and
\* isRecording are false and the microphone tracks of the recording are
\* stopped.
C29_OneRequestPerRecording ==
    /\ [](\A r \in 1..MaxRecordings : requestsSent[r] <= 1)
    /\ [][\A x \in requests : x \notin requests' =>
            /\ ~transcribing' /\ ~isRecording'
            /\ trackState'[x.rec] = "ended"
         ]_vars

\* nothing but white space, or nothing at all
Blank(t) == \A i \in 1..Len(t) : SubSeq(t, i, i) = " "

\* C30: after any setApiKey calls the credential is reported present exactly
\* when a non-empty key is held, the persisted entry is present exactly then
\* and is that key; and saving an empty or white-space key from the modal
\* leaves the credential absent and the persisted entry removed.
C30_KeyPresenceAgrees ==
    /\ [](/\ providerIsApiKeySet <=> \E t \in providerKey : Len(t) > 0
          /\ providerIsApiKeySet <=> localStorageKey # {}
          /\ localStorageKey # {} => localStorageKey = providerKey)
    /\ [][(handleSave /\ Blank(localKey)) =>
            (~providerIsApiKeySet' /\ localStorageKey' = {})]_vars

\* a white-space key was saved over a key that was set
C30_Witness ==
    /\ ~isApiKeyModalOpen
    /\ Blank(localKey) /\ localKey # ""
    /\ apiKey # ""
    /\ providerKey = {""}
    /\ localStorageKey = {}

====
